---- MODULE Spec2Model ----
(***************************************************************************)
(* A model of the golf-course research scripts.                            *)
(*                                                                         *)
(*   maps_golf_lookup.py  the scan: load the persisted session, search the *)
(*                        configured radii around the search origin, merge *)
(*                        the results into unique_courses (annotating each *)
(*                        new course with census data), export JSON + CSV. *)
(*   analysis.py          run_analysis: the cumulative distance analysis   *)
(*                        of the exported CSV.                             *)
(*   app.py               search: the rows the web front end builds.       *)
(*                                                                         *)
(* Coordinates of the search origin are integers in units of half a        *)
(* micro-degree, so that the tolerance 1e-6 of is_same_origin is Tol = 2   *)
(* and differences below, at and above the tolerance all occur.            *)
(* A Python dict is an insertion-ordered sequence of [k, v] items; a key   *)
(* of a JSON object / place dict that is absent is a field that is not in  *)
(* the record's DOMAIN; a value that may be None is <<>> (None) or <<v>>.  *)
(***************************************************************************)
EXTENDS Integers, Sequences, FiniteSets, TLC

\* ----------------------------------------------------------------- bounds
\* results of one places search
MaxResults == 2
\* radii of a run: the first MaxRadii of the configured list
MaxRadii == 2
\* population of a census tract
MaxPop == 1
\* coordinates of the origins compared by is_same_origin
MaxCoord == 3
\* rows of the CSV that run_analysis reads
MaxRows == 3
\* latitude of a course of that CSV, in steps north of the origin
MaxLat == 2

\* 1e-6 degrees, in units of half a micro-degree
Tol == 2

\* ------------------------------------------------------------ small helpers
Abs(x) == IF x < 0 THEN -x ELSE x

Range(s) == {s[i] : i \in DOMAIN s}

\* sorted(list of distinct numbers)
RECURSIVE SortedSeq(_)
SortedSeq(S) ==
  IF S = {} THEN <<>>
  ELSE LET m == CHOOSE x \in S : \A y \in S : x <= y
       IN <<m>> \o SortedSeq(S \ {m})

\* ---------------------------------------------------------- Python dicts
EmptyDict == <<>>

Keys(d) == {d[i].k : i \in DOMAIN d}

Get(d, key) == d[CHOOSE i \in DOMAIN d : d[i].k = key].v

\* d = {key: val} : the dict is replaced by one that holds the entry alone
PutAlone(d, key, val) == <<[k |-> key, v |-> val]>>

\* d[key] = val : a new key is appended, an existing key keeps its position
Put(d, key, val) ==
  IF key \in Keys(d)
  THEN [i \in DOMAIN d |-> IF d[i].k = key THEN [k |-> key, v |-> val] ELSE d[i]]
  ELSE Append(d, [k |-> key, v |-> val])

\* list(d.values())
Values(d) == [i \in DOMAIN d |-> d[i].v]

\* {item['place_id']: item for item in items}
RECURSIVE DictByPlaceId(_)
DictByPlaceId(items) ==
  IF items = <<>> THEN EmptyDict
  ELSE LET n == Len(items)
       IN Put(DictByPlaceId(SubSeq(items, 1, n - 1)), items[n].place_id, items[n])

\* e.get(f), as an optional value
GetOpt(e, f) == IF f \in DOMAIN e THEN <<e[f]>> ELSE <<>>

\* sorted(l), duplicates kept
RECURSIVE SortedList(_)
SortedList(l) ==
  IF l = <<>> THEN <<>>
  ELSE LET i == CHOOSE j \in DOMAIN l : \A m \in DOMAIN l : l[j] <= l[m]
       IN <<l[i]>> \o SortedList(SubSeq(l, 1, i - 1) \o SubSeq(l, i + 1, Len(l)))

\* round(n / d) to the nearest integer, ties to even (Python's round), d > 0
RoundDiv(n, d) ==
  LET q == n \div d
      r == n % d
  IN IF 2 * r < d THEN q
     ELSE IF 2 * r > d THEN q + 1
     ELSE IF q % 2 = 0 THEN q ELSE q + 1

\* ------------------------------------------------------- the modelled world
\* The radius lists the scripts are configured with.
RadiiMiles == <<10, 12, 15, 17, 20>>
RadiiConfigs == {SubSeq(RadiiMiles, 1, n) : n \in 1..MaxRadii}

\* The search origins a run of the scan may be configured with: on one
\* parallel, from equal to a full tolerance apart.
Origins == {<<la, 0>> : la \in 0..Tol}

\* The places the places search knows.
Ids == {1, 2}
\* Place 1 is the place whose payload differs from one search to another.
Names(id) == IF id = 1 THEN {"a", "b"} ELSE {"a"}

\* A place as the places search returns it: its stable id, the rest of its
\* payload (name stands for everything that may differ between two searches)
\* and its geometry, which is fixed by the place.
Place(id, name) == [place_id |-> id, name |-> name, lat |-> id, lng |-> 0]
Places == UNION {{Place(id, name) : name \in Names(id)} : id \in Ids}

\* What the census geocoder answers: <<>> is a failed call (an exception, a
\* response without a tract).
GeoResponses == {<<>>, <<"T1">>}

\* What the ACS API answers: <<>> is a failed call, <<b, t>> the row
\* data[1] with B02001_003E = b and B01003_001E = t.
DemoResponses == {<<>>} \cup UNION {{<<b, t>> : b \in 0..t} : t \in 0..MaxPop}

\* The answers the scan meets. It stores what get_demographics returns and
\* computes nothing from it, so one answer stands for each path: a failed
\* call, a tract without inhabitants (total_pop > 0 is false) and a tract
\* with inhabitants.
ScanDemoResponses == {<<>>, <<0, 0>>, <<1, 1>>}

\* ------------------------------------------------------ maps_golf_lookup.py
EmptyObj == <<>>

NoBlob == [exists |-> FALSE]
ListBlob(items) == [exists |-> TRUE, type |-> "list", items |-> items]
DictBlob(obj) == [exists |-> TRUE, type |-> "dict", obj |-> obj]
\* a blob whose text json.loads rejects
InvalidBlob == [exists |-> TRUE, type |-> "invalid"]
\* a blob holding a JSON value that is neither an object nor an array
ScalarBlob == [exists |-> TRUE, type |-> "scalar"]

\* item['place_id'] raises KeyError for some item of the comprehension
KeyErrorIn(items) == \E i \in DOMAIN items : "place_id" \notin DOMAIN items[i]

\* the items of the comprehension up to the first one without a place_id
RECURSIVE UpToKeyError(_)
UpToKeyError(items) ==
  IF items = <<>> \/ "place_id" \notin DOMAIN Head(items) THEN <<>>
  ELSE <<Head(items)>> \o UpToKeyError(Tail(items))

\* load_from_gcs without the branch for the legacy list
LoadFromGcsNoLegacy(blob, raises) ==
  IF raises \/ ~blob.exists \/ blob.type = "invalid" THEN <<EmptyDict, EmptyObj>>
  ELSE IF blob.type = "dict" /\ "results" \in DOMAIN blob.obj
       THEN IF KeyErrorIn(blob.obj.results) THEN <<EmptyDict, EmptyObj>>
            ELSE <<DictByPlaceId(blob.obj.results),
                   IF "metadata" \in DOMAIN blob.obj THEN blob.obj.metadata ELSE EmptyObj>>
  ELSE <<EmptyDict, EmptyObj>>

\* load_from_gcs filling unique_courses item by item, so that a KeyError
\* leaves the items before it loaded
LoadFromGcsPartial(blob, raises) ==
  IF raises \/ ~blob.exists \/ blob.type = "invalid" THEN <<EmptyDict, EmptyObj>>
  ELSE IF blob.type = "dict" /\ "results" \in DOMAIN blob.obj
       THEN IF KeyErrorIn(blob.obj.results)
            THEN <<DictByPlaceId(UpToKeyError(blob.obj.results)), EmptyObj>>
            ELSE <<DictByPlaceId(blob.obj.results),
                   IF "metadata" \in DOMAIN blob.obj THEN blob.obj.metadata ELSE EmptyObj>>
  ELSE IF blob.type = "list"
       THEN <<DictByPlaceId(UpToKeyError(blob.items)), EmptyObj>>
  ELSE <<EmptyDict, EmptyObj>>

\* load_from_gcs: (unique_courses, existing_metadata). Everything is inside
\* the try block, and the except clause turns any exception into the empty
\* session: raises stands for a storage error, an invalid blob makes
\* json.loads raise, an item without place_id makes the comprehension
\* raise before anything is returned. A value of neither shape passes both
\* tests and reaches the final return.
LoadFromGcs(blob, raises) ==
  IF raises \/ ~blob.exists \/ blob.type = "invalid" THEN <<EmptyDict, EmptyObj>>
  ELSE IF blob.type = "dict" /\ "results" \in DOMAIN blob.obj
       THEN IF KeyErrorIn(blob.obj.results) THEN <<EmptyDict, EmptyObj>>
            ELSE <<DictByPlaceId(blob.obj.results),
                   IF "metadata" \in DOMAIN blob.obj THEN blob.obj.metadata ELSE EmptyObj>>
  ELSE IF blob.type = "list"
       THEN IF KeyErrorIn(blob.items) THEN <<EmptyDict, EmptyObj>>
            ELSE <<DictByPlaceId(blob.items), EmptyObj>>
  ELSE <<EmptyDict, EmptyObj>>

\* get_census_tract
GetCensusTract(resp) ==
  IF resp = <<>> THEN <<>> ELSE <<[geoid |-> resp[1]]>>

\* pct_black = (black_pop / total_pop) * 100 if total_pop > 0 else 0, rounded
\* to two decimals: the value is kept in hundredths of a percent.
PctBlack(black_pop, total_pop) ==
  IF total_pop > 0 THEN RoundDiv(black_pop * 10000, total_pop) ELSE 0

\* get_demographics
GetDemographics(resp) ==
  IF resp = <<>> THEN <<>>
  ELSE <<[pct_black |-> PctBlack(resp[1], resp[2]), total_pop |-> resp[2]]>>

\* existing_metadata.get("radii_searched_miles", [])
RadiiSearched(metadata) ==
  IF "radii_searched_miles" \in DOMAIN metadata
  THEN metadata.radii_searched_miles ELSE <<>>

\* is_same_origin with <= for <
IsSameOriginInclusive(metadata, origin) ==
  LET existing_origin ==
        IF "search_origin" \in DOMAIN metadata THEN metadata.search_origin ELSE EmptyObj
      prev_lat == GetOpt(existing_origin, "lat")
      prev_lng == GetOpt(existing_origin, "lng")
  IN /\ prev_lat # <<>>
     /\ prev_lng # <<>>
     /\ Abs(prev_lat[1] - origin[1]) <= Tol
     /\ Abs(prev_lng[1] - origin[2]) <= Tol

\* is_same_origin
IsSameOrigin(metadata, origin) ==
  LET existing_origin ==
        IF "search_origin" \in DOMAIN metadata THEN metadata.search_origin ELSE EmptyObj
      prev_lat == GetOpt(existing_origin, "lat")
      prev_lng == GetOpt(existing_origin, "lng")
  IN /\ prev_lat # <<>>
     /\ prev_lng # <<>>
     /\ Abs(prev_lat[1] - origin[1]) < Tol
     /\ Abs(prev_lng[1] - origin[2]) < Tol

\* the skip test without the test of the origin
SkipRadiusAnyOrigin(same_origin, radius_mi, metadata) ==
  radius_mi \in Range(RadiiSearched(metadata))

\* the skip test with "or" for "and"
SkipRadiusEither(same_origin, radius_mi, metadata) ==
  same_origin \/ radius_mi \in Range(RadiiSearched(metadata))

\* the skip test at the head of the radius loop
SkipRadius(same_origin, radius_mi, metadata) ==
  same_origin /\ radius_mi \in Range(RadiiSearched(metadata))

\* a place is handled as new again while it has no demographics
IsNewUnlessAnnotated(courses, place_id) ==
  IF place_id \notin Keys(courses) THEN TRUE
  ELSE "pct_black" \notin DOMAIN Get(courses, place_id)

\* the place loop without its membership test
IsNewAlways(courses, place_id) == TRUE

\* place_id not in unique_courses
IsNew(courses, place_id) == place_id \notin Keys(courses)

\* the annotation with zeros stored when the demographics are missing
AnnotateZeros(place, geo_info, stats) ==
  IF geo_info = <<>> THEN place @@ [pct_black |-> 0, total_pop |-> 0]
  ELSE LET with_geoid == place @@ [census_geoid |-> geo_info[1].geoid]
       IN IF stats = <<>> THEN with_geoid @@ [pct_black |-> 0, total_pop |-> 0]
          ELSE with_geoid @@ [pct_black |-> stats[1].pct_black,
                              total_pop |-> stats[1].total_pop]

\* The census annotation of a new place: place is the object stored in
\* unique_courses, so the fields set on it are set on the stored entity.
Annotate(place, geo_info, stats) ==
  IF geo_info = <<>> THEN place
  ELSE LET with_geoid == place @@ [census_geoid |-> geo_info[1].geoid]
       IN IF stats = <<>> THEN with_geoid
          ELSE with_geoid @@ [pct_black |-> stats[1].pct_black,
                              total_pop |-> stats[1].total_pop]

\* final_radii merged whatever the origin
FinalRadiiAlwaysMerged(radii, metadata, same_origin) ==
  SortedSeq(Range(radii) \cup Range(RadiiSearched(metadata)))

\* sorted(final_radii)
FinalRadii(radii, metadata, same_origin) ==
  IF same_origin
  THEN SortedSeq(Range(radii) \cup Range(RadiiSearched(metadata)))
  ELSE SortedList(radii)

\* export_to_gcs: the JSON document (last_updated, a timestamp, is left out)
JsonOutput(courses, origin, radii) ==
  DictBlob([metadata |-> [search_origin |-> [lat |-> origin[1], lng |-> origin[2]],
                          radii_searched_miles |-> radii,
                          total_courses |-> Len(courses)],
            results |-> Values(courses)])

\* export_to_gcs: the CSV rows (address, rating and user_ratings_total,
\* which nothing reads, are left out); an absent field is written empty.
CsvRow(course, origin, radii) ==
  [name |-> course.name, lat |-> course.lat, lng |-> course.lng,
   place_id |-> course.place_id,
   census_geoid |-> GetOpt(course, "census_geoid"),
   pct_black |-> GetOpt(course, "pct_black"),
   total_pop |-> GetOpt(course, "total_pop"),
   search_lat |-> origin[1], search_lng |-> origin[2],
   radii_scanned |-> radii]

CsvOutput(courses, origin, radii) ==
  [i \in DOMAIN courses |-> CsvRow(courses[i].v, origin, radii)]

\* ------------------------------------------------------------------ state
VARIABLES
  gcs_json,           \* the blob golf_courses.json of the bucket
  gcs_csv,            \* the blob golf_courses.csv of the bucket: its rows
  pc,                 \* where the scan script is: idle, scan (head of the
                      \* radius loop), results (inside the place loop),
                      \* done (exported), crashed (an uncaught exception)
  search_origin,      \* module-level names of maps_golf_lookup.py
  radii_miles,
  unique_courses,
  existing_metadata,
  course_count,
  is_same_origin,
  ri,                 \* position of the radius loop in radii_miles
  visited,            \* results of the current search visited so far
  loaded,             \* history: unique_courses as load_from_gcs returned it
  last,               \* history: what the last step of the run did
  run_done,           \* history: the radii searched to the end for the
                      \* session of this run: those of this run, and
                      \* those of the persisted session if it continues it
  demo_calls,         \* history: the calls of get_demographics in this run,
                      \* counted by place id
  persisted_done,     \* history: the same, for the persisted session
  an_pc,              \* where run_analysis is: idle, done, error
  df_sorted,          \* run_analysis: the sorted frame with its derived columns
  total_black_pop,    \* run_analysis
  avg_dist,           \* run_analysis
  zero_div,           \* history: run_analysis divided by a total of zero
  hav_args,           \* a call of haversine on its own: its arguments
  hav_result,         \* and what it returned or raised
  config              \* the environment: which of SECRET_PLACES,
                      \* SECRET_CENSUS_API and SECRET_BUCKET are set

scan_vars == <<pc, search_origin, radii_miles, unique_courses, existing_metadata,
               course_count, is_same_origin, ri, visited, loaded, last, run_done,
               demo_calls>>

bucket_vars == <<gcs_json, gcs_csv, persisted_done>>

hav_vars == <<hav_args, hav_result>>

analysis_vars == <<an_pc, df_sorted, total_black_pop, avg_dist, zero_div, hav_vars>>

vars == <<bucket_vars, scan_vars, analysis_vars, config>>

\* what a run of the scan fixes when it starts
run_vars == <<search_origin, radii_miles, existing_metadata, is_same_origin, loaded>>

\* The environment with SECRET_PLACES, SECRET_CENSUS_API and SECRET_BUCKET set
AllConfigured == [places |-> TRUE, census |-> TRUE, bucket |-> TRUE]

NoEvent == [kind |-> "none"]

NoCalls == [id \in Ids |-> 0]

ScanIdle ==
  /\ pc = "idle"
  /\ search_origin = <<0, 0>>
  /\ radii_miles = <<10>>
  /\ unique_courses = EmptyDict
  /\ existing_metadata = EmptyObj
  /\ course_count = 0
  /\ is_same_origin = FALSE
  /\ ri = 1
  /\ visited = 0
  /\ loaded = EmptyDict
  /\ last = NoEvent
  /\ run_done = {}
  /\ demo_calls = NoCalls

HaversineIdle ==
  /\ hav_args = <<>>
  /\ hav_result = <<>>

AnalysisIdle ==
  /\ an_pc = "idle"
  /\ df_sorted = <<>>
  /\ total_black_pop = <<>>
  /\ avg_dist = <<>>
  /\ zero_div = FALSE

\* A bucket written by the earlier version of the script (temp-integration.py),
\* whose export is the bare list of the courses: no course, one course (not
\* annotated, or annotated), or two courses.
LegacyCourses ==
  {Place(id, "a") : id \in Ids}
    \cup {Annotate(Place(id, "a"), GetCensusTract(<<"T1">>), GetDemographics(<<1, 1>>)) :
            id \in Ids}

LegacyLists ==
  {<<>>} \cup {<<c>> : c \in LegacyCourses}
    \cup {<<c, d>> : c \in {x \in LegacyCourses : x.place_id = 1},
                     d \in {x \in LegacyCourses : x.place_id = 2 /\ "pct_black" \notin DOMAIN x}}

\* The scan starts on an empty bucket or on a legacy one.
Init ==
  /\ gcs_json \in {NoBlob} \cup {ListBlob(l) : l \in LegacyLists}
  /\ gcs_csv = <<>>
  /\ persisted_done = {}
  /\ ScanIdle
  /\ AnalysisIdle
  /\ config = AllConfigured
  /\ HaversineIdle

\* ---------------------------------------------------------------- actions
\* The script starts: the configuration, load_from_gcs, is_same_origin.
\* googlemaps.Client(key=MAPS_KEY) has its key; without a bucket name the
\* storage calls of load_from_gcs raise inside its try block.
StartRun(origin, radii, raises) ==
  /\ pc \in {"idle", "done", "crashed"}
  /\ config.places
  /\ ~config.bucket => raises
  /\ LET session == LoadFromGcs(gcs_json, raises)
     IN /\ unique_courses' = session[1]
        /\ existing_metadata' = session[2]
        /\ course_count' = Len(session[1])
        /\ is_same_origin' = IsSameOrigin(session[2], origin)
        /\ loaded' = session[1]
        /\ run_done' = IF IsSameOrigin(session[2], origin) THEN persisted_done ELSE {}
  /\ search_origin' = origin
  /\ radii_miles' = radii
  /\ ri' = 1
  /\ visited' = 0
  /\ last' = [kind |-> "started", load_raised |-> raises]
  /\ demo_calls' = NoCalls
  /\ pc' = "scan"
  /\ UNCHANGED <<bucket_vars, analysis_vars>>
  /\ UNCHANGED config

\* for radius_mi in radii_miles: ... continue
Skip ==
  /\ pc = "scan"
  /\ ri <= Len(radii_miles)
  /\ SkipRadius(is_same_origin, radii_miles[ri], existing_metadata)
  /\ ri' = ri + 1
  /\ last' = [kind |-> "skipped", radius |-> radii_miles[ri]]
  /\ UNCHANGED <<pc, unique_courses, course_count, visited, run_done>>
  /\ UNCHANGED <<run_vars, bucket_vars, analysis_vars>>
  /\ UNCHANGED config
  /\ UNCHANGED demo_calls

\* gmaps.places(...) returns. The places of places_result['results'] are
\* drawn one by one as the place loop reaches them: visited counts them.
Search ==
  /\ pc = "scan"
  /\ ri <= Len(radii_miles)
  /\ ~SkipRadius(is_same_origin, radii_miles[ri], existing_metadata)
  /\ visited' = 0
  /\ pc' = "results"
  /\ last' = [kind |-> "searched", radius |-> radii_miles[ri]]
  /\ UNCHANGED <<unique_courses, course_count, ri, run_done>>
  /\ UNCHANGED <<run_vars, bucket_vars, analysis_vars>>
  /\ UNCHANGED config
  /\ UNCHANGED demo_calls

\* gmaps.places(...) raises (a transport or API error): nothing catches it
SearchFails ==
  /\ pc = "scan"
  /\ ri <= Len(radii_miles)
  /\ ~SkipRadius(is_same_origin, radii_miles[ri], existing_metadata)
  /\ pc' = "crashed"
  /\ last' = [kind |-> "search_failed", radius |-> radii_miles[ri]]
  /\ UNCHANGED <<unique_courses, course_count, ri, visited, run_done>>
  /\ UNCHANGED <<run_vars, bucket_vars, analysis_vars>>
  /\ UNCHANGED config
  /\ UNCHANGED demo_calls

\* One pass of the body of the place loop, for a place that is new: it is
\* counted, stored and annotated with what the two census calls answer
\* (get_demographics is called only with a tract).
VisitNew(place, geo_resp, demo_resp) ==
  /\ pc = "results"
  /\ visited < MaxResults
  /\ LET geo_info == GetCensusTract(geo_resp)
         stats == IF geo_info = <<>> THEN <<>> ELSE GetDemographics(demo_resp)
     IN /\ IsNew(unique_courses, place.place_id)
        /\ geo_info = <<>> => demo_resp = <<>>
        /\ course_count' = course_count + 1
        /\ unique_courses' =
             Put(unique_courses, place.place_id, Annotate(place, geo_info, stats))
        /\ last' = [kind |-> IF geo_info = <<>> THEN "geo_failed"
                             ELSE IF stats = <<>> THEN "demo_failed"
                             ELSE "annotated",
                    place |-> place]
        /\ demo_calls' =
             IF geo_info = <<>> THEN demo_calls
             ELSE [demo_calls EXCEPT ![place.place_id] = @ + 1]
  /\ visited' = visited + 1
  /\ UNCHANGED <<pc, ri, run_done>>
  /\ UNCHANGED <<run_vars, bucket_vars, analysis_vars>>
  /\ UNCHANGED config

\* One pass of the body of the place loop, for a place already stored: pass
VisitKnown(place) ==
  /\ pc = "results"
  /\ visited < MaxResults
  /\ ~IsNew(unique_courses, place.place_id)
  /\ last' = [kind |-> "known", place |-> place]
  /\ visited' = visited + 1
  /\ UNCHANGED <<pc, unique_courses, course_count, ri, run_done>>
  /\ UNCHANGED <<run_vars, bucket_vars, analysis_vars>>
  /\ UNCHANGED config
  /\ UNCHANGED demo_calls

\* The results are exhausted: the place loop ends, the next radius.
EndRadius ==
  /\ pc = "results"
  /\ ri' = ri + 1
  /\ pc' = "scan"
  /\ run_done' = run_done \cup {radii_miles[ri]}
  /\ last' = [kind |-> "radius_done", radius |-> radii_miles[ri]]
  /\ UNCHANGED <<unique_courses, course_count, visited>>
  /\ UNCHANGED <<run_vars, bucket_vars, analysis_vars>>
  /\ UNCHANGED config
  /\ UNCHANGED demo_calls

\* final_radii and export_to_gcs, both uploads succeeding
Export ==
  /\ pc = "scan"
  /\ ri > Len(radii_miles)
  /\ config.bucket
  /\ LET final_radii == FinalRadii(radii_miles, existing_metadata, is_same_origin)
     IN /\ gcs_json' = JsonOutput(unique_courses, search_origin, final_radii)
        /\ gcs_csv' = CsvOutput(unique_courses, search_origin, final_radii)
  /\ persisted_done' = run_done
  /\ pc' = "done"
  /\ last' = [kind |-> "exported"]
  /\ UNCHANGED <<unique_courses, course_count, ri, visited, run_done>>
  /\ UNCHANGED <<run_vars, analysis_vars>>
  /\ UNCHANGED config
  /\ UNCHANGED demo_calls

\* export_to_gcs raises before the first upload (the storage client, the
\* bucket): nothing is written.
ExportFails ==
  /\ pc = "scan"
  /\ ri > Len(radii_miles)
  /\ pc' = "crashed"
  /\ last' = [kind |-> "export_failed"]
  /\ UNCHANGED <<unique_courses, course_count, ri, visited, run_done>>
  /\ UNCHANGED <<run_vars, bucket_vars, analysis_vars>>
  /\ UNCHANGED config
  /\ UNCHANGED demo_calls

\* The scan, run any number of times on the bucket it left, with the bucket
\* readable at every start.
Next ==
  \/ \E origin \in Origins, radii \in RadiiConfigs : StartRun(origin, radii, FALSE)
  \/ Skip
  \/ Search
  \/ SearchFails
  \/ \E place \in Places, geo_resp \in GeoResponses, demo_resp \in ScanDemoResponses :
       VisitNew(place, geo_resp, demo_resp)
  \/ \E place \in Places : VisitKnown(place)
  \/ EndRadius
  \/ Export
  \/ ExportFails

Spec == Init /\ [][Next]_vars

\* ------------------------------------------------------------- analysis.py
\* A float of the frame is <<>> (NaN: an empty field of the CSV, or what an
\* operation on NaN gives) or <<x>>, the value x.
NaN == <<>>

\* 0 / 0 is NaN; x / 0 is infinite
Inf == <<1, 0>>

\* haversine, for two points of one meridian (dlambda = 0): a is
\* sin(dphi / 2) ** 2 and the distance R * |dphi|. The unit is R times one
\* step of latitude.
Haversine(lat1, lon1, lat2, lon2) == Abs(lat2 - lat1)

\* (df['pct_black'] / 100) * df['total_pop'], NaN when a factor is. With
\* pct_black in hundredths of a percent the value is in 1/10000 of a person.
BlackPop(pct_black, total_pop) ==
  IF pct_black = NaN \/ total_pop = NaN THEN NaN
  ELSE <<pct_black[1] * total_pop[1]>>

\* Series.sum(): NaN is skipped
RECURSIVE SumSkipNa(_)
SumSkipNa(xs) ==
  IF xs = <<>> THEN 0
  ELSE (IF Head(xs) = NaN THEN 0 ELSE Head(xs)[1]) + SumSkipNa(Tail(xs))

\* Series.cumsum(): the running sum skips NaN and is NaN where the value is
CumSum(xs) ==
  [i \in DOMAIN xs |-> IF xs[i] = NaN THEN NaN ELSE <<SumSkipNa(SubSeq(xs, 1, i))>>]

\* x / total on floats, the quotient kept as <<numerator, denominator>>:
\* nothing is raised for a total of zero
Divide(x, total) ==
  IF x = NaN THEN NaN
  ELSE IF total = 0 THEN (IF x[1] = 0 THEN NaN ELSE Inf)
  ELSE <<x[1], total>>

\* pd.read_csv, then the columns distance and black_pop; the origin is that
\* of the first record
Frame(csv) ==
  [i \in DOMAIN csv |->
     csv[i] @@ [distance |-> Haversine(csv[1].search_lat, csv[1].search_lng,
                                       csv[i].lat, csv[i].lng),
                black_pop |-> BlackPop(csv[i].pct_black, csv[i].total_pop)]]

\* df.sort_values(by='distance'): the default sort is not stable, so rows of
\* equal distance come in any order
SortValues(df) ==
  {[i \in DOMAIN df |-> df[p[i]]] :
     p \in {q \in Permutations(DOMAIN df) :
              \A i, j \in DOMAIN df : i < j => df[q[i]].distance <= df[q[j]].distance}}

BlackPops(df) == [i \in DOMAIN df |-> df[i].black_pop]

\* df_sorted['black_pop'].sum()
TotalBlackPop(df) == SumSkipNa(BlackPops(df))

\* the columns cum_black_pop and relative_fraction
Cumulative(df) ==
  LET cum == CumSum(BlackPops(df))
  IN [i \in DOMAIN df |->
        df[i] @@ [cum_black_pop |-> cum[i],
                  relative_fraction |-> Divide(cum[i], TotalBlackPop(df))]]

\* (df_sorted['distance'] * df_sorted['black_pop']).sum() / total_black_pop
AvgDist(df) ==
  Divide(<<SumSkipNa([i \in DOMAIN df |->
                        IF df[i].black_pop = NaN THEN NaN
                        ELSE <<df[i].distance * df[i].black_pop[1]>>])>>,
         TotalBlackPop(df))

\* run_analysis on a CSV with records (the two bar charts, which read
\* pct_black only and feed nothing, are left out)
RunAnalysis(sorted) ==
  /\ an_pc = "idle"
  /\ config.bucket
  /\ gcs_csv # <<>>
  /\ sorted \in SortValues(Frame(gcs_csv))
  /\ df_sorted' = Cumulative(sorted)
  /\ total_black_pop' = <<TotalBlackPop(sorted)>>
  /\ avg_dist' = AvgDist(sorted)
  /\ zero_div' = (TotalBlackPop(sorted) = 0)
  /\ an_pc' = "done"
  /\ UNCHANGED <<bucket_vars, scan_vars>>
  /\ UNCHANGED config
  /\ UNCHANGED hav_vars

\* run_analysis on the empty CSV that an export without courses writes:
\* pd.read_csv raises, the except clause reports it
AnalysisFails ==
  /\ an_pc = "idle"
  /\ config.bucket
  /\ gcs_csv = <<>>
  /\ an_pc' = "error"
  /\ UNCHANGED <<df_sorted, total_black_pop, avg_dist, zero_div>>
  /\ UNCHANGED <<bucket_vars, scan_vars>>
  /\ UNCHANGED config
  /\ UNCHANGED hav_vars

\* The courses of a bucket that run_analysis reads: course i at any latitude
\* on the meridian of the origin, geocoded, its demographics found or not.
AnalysisCourse(id, lat, demo_resp) ==
  Annotate([place_id |-> id, name |-> "a", lat |-> lat, lng |-> 0],
           GetCensusTract(<<"T1">>), GetDemographics(demo_resp))

\* The dicts of n such courses.
AnalysisDicts(n) ==
  {[i \in 1..n |-> [k |-> i, v |-> AnalysisCourse(i, c[i][1], c[i][2])]] :
     c \in [1..n -> (0..MaxLat) \X DemoResponses]}

\* The bucket as an export at the origin <<0, 0>> left it.
InitAnalysis ==
  /\ \E n \in 0..MaxRows : \E courses \in AnalysisDicts(n) :
       /\ gcs_json = JsonOutput(courses, <<0, 0>>, <<10>>)
       /\ gcs_csv = CsvOutput(courses, <<0, 0>>, <<10>>)
  /\ persisted_done = {10}
  /\ ScanIdle
  /\ AnalysisIdle
  /\ config = AllConfigured
  /\ HaversineIdle

NextAnalysis ==
  \/ \E sorted \in SortValues(Frame(gcs_csv)) : RunAnalysis(sorted)
  \/ AnalysisFails

SpecAnalysis == InitAnalysis /\ [][NextAnalysis]_vars

\* ------------------------------------------- haversine on far and equal points
\* The latitudes of the points haversine is called with, in degrees.
HavLats == {0, 3, 8, 12, 45, 82, 90}

\* The rounding of line 15 for a point at latitude lat and its antipode, in
\* units of 2 ** -53: there dlambda is pi and sin(dlambda / 2) ** 2 is 1.0,
\* so a is sin(phi) ** 2 + cos(phi) ** 2 in IEEE doubles, which is
\* 1.0000000000000002 at 8, 12 and 82 degrees, 0.9999999999999999 at 3
\* degrees and 1.0 at 0, 45 and 90 degrees, north or south.
RoundingAt(lat) ==
  CASE lat \in {8, 12, 82} -> 2
    [] lat = 3 -> -1
    [] OTHER -> 0

HavPoints == {<<s * la, lo>> : s \in {-1, 1}, la \in HavLats, lo \in {-180, -90, 0, 90}}

Antipode(p) == <<-p[1], IF p[2] <= 0 THEN p[2] + 180 ELSE p[2] - 180>>

\* a point with itself, and a point with its antipode
HavPairs == {<<p, p>> : p \in HavPoints} \cup {<<p, Antipode(p)>> : p \in HavPoints}

\* The term a of haversine on such a pair, as whole + ulps * 2 ** -53: for
\* equal points dphi and dlambda are 0.0 and a is 0.0.
HavTerm(lat1, lon1, lat2, lon2) ==
  IF lat1 = lat2 /\ lon1 = lon2 THEN [whole |-> 0, ulps |-> 0]
  ELSE [whole |-> 1, ulps |-> RoundingAt(Abs(lat1))]

\* haversine on such a pair: math.sqrt(1 - a) raises ValueError when a is
\* above 1.0, nothing clamps a. The distance is 2 * R * atan2(...), here the
\* atan2 in quarter turns: 0 for a = 0.0, 1 for a = 1.0 (and within an ulp of
\* it for a just below 1.0).
HaversineFloat(lat1, lon1, lat2, lon2) ==
  LET a == HavTerm(lat1, lon1, lat2, lon2)
  IN IF a.whole = 1 /\ a.ulps > 0 THEN [raised |-> TRUE]
     ELSE [raised |-> FALSE, quarter_turns |-> IF a.whole = 0 THEN 0 ELSE 1]

CallHaversine ==
  /\ hav_args # <<>>
  /\ hav_result = <<>>
  /\ hav_result' = <<HaversineFloat(hav_args[1][1], hav_args[1][2],
                                    hav_args[2][1], hav_args[2][2])>>
  /\ UNCHANGED <<hav_args, bucket_vars, scan_vars, config>>
  /\ UNCHANGED <<an_pc, df_sorted, total_black_pop, avg_dist, zero_div>>

InitHaversine ==
  /\ hav_args \in HavPairs
  /\ hav_result = <<>>
  /\ gcs_json = NoBlob
  /\ gcs_csv = <<>>
  /\ persisted_done = {}
  /\ ScanIdle
  /\ AnalysisIdle
  /\ config = AllConfigured

NextHaversine == CallHaversine

SpecHaversine == InitHaversine /\ [][NextHaversine]_vars

\* ------------------------------------------------- the loader on any bucket
\* The persisted sessions load_from_gcs may find: no blob, a legacy list, or
\* a wrapped document whose metadata holds an origin anywhere on the grid,
\* an origin without its latitude or its longitude, or no origin at all.
MetaOrigins ==
  {[lat |-> a, lng |-> b] : a \in 0..MaxCoord, b \in 0..MaxCoord}
    \cup {[lat |-> a] : a \in 0..MaxCoord}
    \cup {[lng |-> b] : b \in 0..MaxCoord}

LoadMetadata ==
  {[search_origin |-> o, radii_searched_miles |-> r, total_courses |-> 1] :
     o \in MetaOrigins, r \in RadiiConfigs}
    \cup {[radii_searched_miles |-> r, total_courses |-> 1] : r \in RadiiConfigs}

\* Sessions that are not what an export writes: text that is not JSON, a
\* value of neither shape (a scalar, an object without results), and lists
\* in which an entity has no place_id, first or after a sound one.
NoIdLists ==
  {<<[name |-> "a"]>>, <<Place(1, "a"), [name |-> "a"]>>,
   <<Place(1, "a"), Place(2, "a"), [name |-> "b"]>>}

MalformedBlobs ==
  {InvalidBlob, ScalarBlob}
    \cup {DictBlob([metadata |-> m]) : m \in LoadMetadata}
    \cup {ListBlob(l) : l \in NoIdLists}
    \cup {DictBlob([metadata |-> m, results |-> l]) : m \in LoadMetadata, l \in NoIdLists}

LoadBlobs ==
  {NoBlob}
    \cup {ListBlob(l) : l \in LegacyLists}
    \cup {DictBlob([metadata |-> m, results |-> <<Place(1, "a")>>]) : m \in LoadMetadata}
    \cup {DictBlob([results |-> <<Place(1, "a")>>])}
    \cup MalformedBlobs

Origins2D == {<<la, ln>> : la \in 0..MaxCoord, ln \in 0..MaxCoord}

\* The loader reads golf_courses.json only.
InitLoad ==
  /\ gcs_json \in LoadBlobs
  /\ gcs_csv = <<>>
  /\ persisted_done = {}
  /\ ScanIdle
  /\ AnalysisIdle
  /\ config = AllConfigured
  /\ HaversineIdle

\* The start of one run, the bucket readable or not.
NextLoad ==
  \E origin \in Origins2D, radii \in RadiiConfigs, raises \in BOOLEAN :
    StartRun(origin, radii, raises)

SpecLoad == InitLoad /\ [][NextLoad]_vars

\* ------------------------------------------------- the scripts on any environment
\* get_secret(None) returns None for a variable that is not set: MAPS_KEY or
\* CENSUS_KEY is None. Nothing tests CENSUS_KEY or secret_bucket_id.
Configs == [places : BOOLEAN, census : BOOLEAN, bucket : BOOLEAN]

\* googlemaps.Client(key=None) raises ValueError at module level, before
\* load_from_gcs and the radius loop
StartFails ==
  /\ pc \in {"idle", "done", "crashed"}
  /\ ~config.places
  /\ pc' = "crashed"
  /\ last' = [kind |-> "config_error"]
  /\ UNCHANGED <<search_origin, radii_miles, unique_courses, existing_metadata,
                 course_count, is_same_origin, ri, visited, loaded, run_done>>
  /\ UNCHANGED <<bucket_vars, analysis_vars, config>>
  /\ UNCHANGED demo_calls

\* run_analysis without SECRET_BUCKET: the error is printed, return
AnalysisNoBucket ==
  /\ an_pc = "idle"
  /\ ~config.bucket
  /\ an_pc' = "error"
  /\ UNCHANGED <<df_sorted, total_black_pop, avg_dist, zero_div>>
  /\ UNCHANGED <<bucket_vars, scan_vars, config>>
  /\ UNCHANGED hav_vars

InitConfig ==
  /\ config \in Configs
  /\ gcs_json = NoBlob
  /\ gcs_csv = <<>>
  /\ persisted_done = {}
  /\ ScanIdle
  /\ AnalysisIdle
  /\ HaversineIdle

\* The scan at one origin and the analysis, on an environment that lacks
\* any of the three variables. get_demographics sends its request with
\* "key": None when CENSUS_KEY is None, so the ACS answers as for any request.
NextConfig ==
  \/ \E radii \in RadiiConfigs : StartRun(<<0, 0>>, radii, ~config.bucket)
  \/ StartFails
  \/ Skip
  \/ Search
  \/ SearchFails
  \/ \E place \in Places, geo_resp \in GeoResponses, demo_resp \in ScanDemoResponses :
       VisitNew(place, geo_resp, demo_resp)
  \/ \E place \in Places : VisitKnown(place)
  \/ EndRadius
  \/ Export
  \/ ExportFails
  \/ \E sorted \in SortValues(Frame(gcs_csv)) : RunAnalysis(sorted)
  \/ AnalysisFails
  \/ AnalysisNoBucket

SpecConfig == InitConfig /\ [][NextConfig]_vars

\* ------------------------------------------------------------------ claims
\* The metadata of the persisted session, as the bucket holds it.
PersistedMetadata ==
  IF gcs_json.exists /\ gcs_json.type = "dict" /\ "metadata" \in DOMAIN gcs_json.obj
  THEN gcs_json.obj.metadata ELSE EmptyObj

HasOrigin(metadata) ==
  /\ "search_origin" \in DOMAIN metadata
  /\ "lat" \in DOMAIN metadata.search_origin
  /\ "lng" \in DOMAIN metadata.search_origin

\* The origin of metadata is within less than the tolerance of origin.
OriginsMatch(metadata, origin) ==
  /\ HasOrigin(metadata)
  /\ Abs(metadata.search_origin.lat - origin[1]) < Tol
  /\ Abs(metadata.search_origin.lng - origin[2]) < Tol

\* The same, the tolerance itself included.
OriginsMatchInclusive(metadata, origin) ==
  /\ HasOrigin(metadata)
  /\ Abs(metadata.search_origin.lat - origin[1]) <= Tol
  /\ Abs(metadata.search_origin.lng - origin[2]) <= Tol

InRun == pc \in {"scan", "results"}

\* C1 (first seen wins): in every step of the scan loop, every place id
\* already in unique_courses stays in it with the entity stored for it
\* unchanged, whatever the result visited carries, and the only id that may
\* enter is one that was absent.
C1_FirstSeenWins ==
  [][InRun =>
       /\ \A id \in Keys(unique_courses) :
            /\ id \in Keys(unique_courses')
            /\ Get(unique_courses', id) = Get(unique_courses, id)
       /\ Len(unique_courses') = Cardinality(Keys(unique_courses'))
       /\ Len(unique_courses') <= Len(unique_courses) + 1]_vars

\* C1 witness: a result for a stored id was visited, carrying other data than
\* the stored entity.
C1_Witness ==
  /\ last.kind = "known"
  /\ last.place.place_id \in Keys(unique_courses)
  /\ Get(unique_courses, last.place.place_id).name # last.place.name

\* C2 (skip decision): a radius is skipped only when the persisted origin
\* matches the search origin and the radius is in the persisted list, and is
\* searched (the call returning or raising) only when that is not so.
C2_SkipDecision ==
  LET skippable(radius) ==
        /\ OriginsMatch(PersistedMetadata, search_origin)
        /\ radius \in Range(RadiiSearched(PersistedMetadata))
  IN /\ last.kind = "skipped" => skippable(last.radius)
     /\ last.kind \in {"searched", "search_failed"} => ~skippable(last.radius)

\* C2 witness: a radius of the persisted list was searched again, the
\* persisted origin being a full tolerance away.
C2_Witness ==
  /\ last.kind = "searched"
  /\ last.radius \in Range(RadiiSearched(PersistedMetadata))
  /\ HasOrigin(PersistedMetadata)
  /\ ~OriginsMatch(PersistedMetadata, search_origin)

\* C2 witness of the other case: a radius was skipped at an origin that is
\* not the persisted one but within the tolerance of it.
C2_SkipReached ==
  /\ last.kind = "skipped"
  /\ PersistedMetadata.search_origin.lat # search_origin[1]

\* C4 (radius history): the radii an export writes are those of the run
\* together with the persisted ones when the origins match, and those of the
\* run alone when they do not.
C4_RadiusHistory ==
  last.kind = "exported" =>
    Range(PersistedMetadata.radii_searched_miles) =
      IF OriginsMatch(existing_metadata, search_origin)
      THEN Range(radii_miles) \cup Range(RadiiSearched(existing_metadata))
      ELSE Range(radii_miles)

\* C4 witness: an export at another origin dropped a persisted radius that
\* the run did not search.
C4_Witness ==
  /\ last.kind = "exported"
  /\ HasOrigin(existing_metadata)
  /\ ~OriginsMatch(existing_metadata, search_origin)
  /\ \E r \in Range(RadiiSearched(existing_metadata)) :
       r \notin Range(PersistedMetadata.radii_searched_miles)

\* C4 witness of the other case: an export at the same origin kept a
\* persisted radius that is not one of the run.
C4_MergeReached ==
  /\ last.kind = "exported"
  /\ OriginsMatch(existing_metadata, search_origin)
  /\ \E r \in Range(PersistedMetadata.radii_searched_miles) : r \notin Range(radii_miles)

\* C3 as amended (origin identity): after the load, the origins are treated
\* as the same exactly when the loaded session holds a latitude and a
\* longitude and both differ from the search origin by less than the
\* tolerance, the tolerance itself excluded.
C3_OriginIdentity ==
  pc = "scan" => (is_same_origin <=> OriginsMatch(existing_metadata, search_origin))

\* C3 as stated: the same, with a difference equal to the tolerance counting
\* as the same origin.
C3_OriginIdentityInclusive ==
  pc = "scan" => (is_same_origin <=> OriginsMatchInclusive(existing_metadata, search_origin))

\* C3 witness: a loaded origin whose latitude is exactly the tolerance away,
\* its longitude within it, was not treated as the same origin.
C3_Witness ==
  /\ pc = "scan"
  /\ HasOrigin(existing_metadata)
  /\ Abs(existing_metadata.search_origin.lat - search_origin[1]) = Tol
  /\ Abs(existing_metadata.search_origin.lng - search_origin[2]) < Tol
  /\ ~is_same_origin

\* C3 witness of the other cases: the same origin at a distance, and a
\* session that lacks a coordinate.
C3_NearReached ==
  /\ pc = "scan"
  /\ is_same_origin
  /\ existing_metadata.search_origin.lat # search_origin[1]
  /\ existing_metadata.search_origin.lng # search_origin[2]

C3_MissingReached ==
  /\ pc = "scan"
  /\ "search_origin" \in DOMAIN existing_metadata
  /\ "lat" \notin DOMAIN existing_metadata.search_origin
  /\ existing_metadata.search_origin.lng = search_origin[2]
  /\ ~is_same_origin

\* C5 (a failed lookup): the step that visits a new place whose geocoding or
\* demographic lookup fails stores the place without pct_black and
\* total_pop (and with nothing else added but the tract, when that was
\* found), leaves every other entity as it was and stays in the place loop;
\* no later step of the run gives such an entity the fields; and the export
\* writes the entities of unique_courses as they are, the fields empty in
\* the CSV.
C5_FailedLookup ==
  [][/\ (visited' = visited + 1 /\ last'.kind \in {"geo_failed", "demo_failed"}) =>
          LET id == last'.place.place_id
          IN /\ id \in Keys(unique_courses')
             /\ Get(unique_courses', id) =
                  IF last'.kind = "geo_failed" THEN last'.place
                  ELSE last'.place @@ [census_geoid |-> "T1"]
             /\ "pct_black" \notin DOMAIN Get(unique_courses', id)
             /\ "total_pop" \notin DOMAIN Get(unique_courses', id)
             /\ \A other \in Keys(unique_courses) :
                  /\ other \in Keys(unique_courses')
                  /\ Get(unique_courses', other) = Get(unique_courses, other)
             /\ pc' = "results"
     /\ InRun =>
          \A id \in Keys(unique_courses) :
            "pct_black" \notin DOMAIN Get(unique_courses, id) =>
              /\ id \in Keys(unique_courses')
              /\ "pct_black" \notin DOMAIN Get(unique_courses', id)
              /\ "total_pop" \notin DOMAIN Get(unique_courses', id)
     /\ last'.kind = "exported" =>
          /\ gcs_json'.obj.results = Values(unique_courses')
          /\ Len(gcs_csv') = Len(unique_courses')
          /\ \A i \in DOMAIN gcs_csv' :
               /\ gcs_csv'[i].place_id = unique_courses'[i].v.place_id
               /\ gcs_csv'[i].pct_black = GetOpt(unique_courses'[i].v, "pct_black")
               /\ gcs_csv'[i].total_pop = GetOpt(unique_courses'[i].v, "total_pop")]_vars

\* C5 witness: a run in which the demographic lookup of a place failed after
\* another place was annotated has exported both, the one with its tract and
\* without the two fields.
C5_Witness ==
  /\ last.kind = "exported"
  /\ \E i, j \in DOMAIN gcs_json.obj.results :
       /\ "census_geoid" \in DOMAIN gcs_json.obj.results[i]
       /\ "pct_black" \notin DOMAIN gcs_json.obj.results[i]
       /\ gcs_csv[i].pct_black = <<>>
       /\ "pct_black" \in DOMAIN gcs_json.obj.results[j]

C10_LegacyLoad ==
  (gcs_json.exists /\ gcs_json.type = "list" /\ pc # "idle") =>
    /\ existing_metadata = EmptyObj
    /\ RadiiSearched(existing_metadata) = <<>>
    /\ Len(loaded) = Len(gcs_json.items)
    /\ \A i \in DOMAIN gcs_json.items :
         /\ loaded[i].k = gcs_json.items[i].place_id
         /\ loaded[i].v = gcs_json.items[i]
    /\ ~is_same_origin
    /\ last.kind # "skipped"

\* C10 witness: a run on a legacy list of two courses has searched its
\* second radius.
C10_Witness ==
  /\ gcs_json.exists /\ gcs_json.type = "list"
  /\ Len(gcs_json.items) = 2
  /\ Len(loaded) = 2
  /\ last.kind = "searched"
  /\ ri = 2

\* ---------------------------------------------------------------- analysis
Analysed == an_pc = "done"

\* a <= b on quotients; a comparison with NaN is false
FracLeq(a, b) ==
  /\ a # NaN /\ b # NaN
  /\ a[2] # 0 /\ b[2] # 0
  /\ a[1] * b[2] <= b[1] * a[2]

\* The cumulative column is the running sum of black_pop over the sorted
\* rows, the fractions do not decrease and the last one is 1.
RunningSum(df, total) ==
  /\ \A i \in DOMAIN df :
       /\ df[i].black_pop # NaN
       /\ df[i].cum_black_pop = <<SumSkipNa(SubSeq(BlackPops(df), 1, i))>>
  /\ \A i, j \in DOMAIN df :
       i < j => FracLeq(df[i].relative_fraction, df[j].relative_fraction)
  /\ df # <<>> /\ df[Len(df)].relative_fraction = <<total, total>>

\* C7: when the total weighted population is zero, the analysis yields no
\* derived row and no mean weighted distance, and has divided nothing by the
\* zero total.
C7_ZeroTotalGuard ==
  (Analysed /\ total_black_pop = <<0>>) =>
     /\ df_sorted = <<>>
     /\ avg_dist = NaN
     /\ ~zero_div

\* C7: an analysis of courses that all have a population of zero has
\* produced its rows, dividing by the zero total.
C7_DividedByZero ==
  /\ Analysed
  /\ total_black_pop = <<0>>
  /\ zero_div
  /\ df_sorted # <<>>
  /\ \A i \in DOMAIN df_sorted : df_sorted[i].relative_fraction = NaN

\* C8: when the total weighted population is positive, the cumulative
\* weighted population of row i is the sum of weighted_pop over the rows 1..i
\* of the distance-sorted order, the relative fractions do not decrease and
\* the last one equals 1.
C8_RunningSum ==
  (Analysed /\ total_black_pop # <<0>>) =>
     RunningSum(df_sorted, total_black_pop[1])

\* C8: with a positive total, the farthest row is one without demographic
\* data, and its relative fraction is NaN, not 1.
C8_LastIsNaN ==
  /\ Analysed
  /\ total_black_pop # <<0>>
  /\ df_sorted[Len(df_sorted)].total_pop = NaN
  /\ df_sorted[Len(df_sorted)].relative_fraction = NaN

\* C8, on inputs where every course has its demographic data: with a
\* positive total the running sum, the order and the last fraction hold.
C8_RunningSumCompleteData ==
  (/\ Analysed
   /\ total_black_pop # <<0>>
   /\ \A i \in DOMAIN df_sorted : df_sorted[i].black_pop # NaN) =>
     RunningSum(df_sorted, total_black_pop[1])

\* C9: no derived row is produced for a course that lacks pct_black or
\* total_pop.
C9_MissingExcluded ==
  Analysed =>
     \A i \in DOMAIN df_sorted :
        df_sorted[i].pct_black # NaN /\ df_sorted[i].total_pop # NaN

\* C9: a course without demographic data has a derived row, with a distance.
C9_MissingRowDerived ==
  /\ Analysed
  /\ \E i \in DOMAIN df_sorted :
       /\ df_sorted[i].pct_black = NaN
       /\ df_sorted[i].total_pop = NaN
       /\ df_sorted[i].distance > 0
       /\ df_sorted[i].black_pop = NaN

\* ------------------------------------------------------------------ loader
\* The blob is not a session an export wrote: not JSON, a value of neither
\* shape, or a sequence with an entity that has no id.
Malformed(blob) ==
  /\ blob.exists
  /\ \/ blob.type \in {"invalid", "scalar"}
     \/ blob.type = "dict" /\ "results" \notin DOMAIN blob.obj
     \/ blob.type = "dict" /\ "results" \in DOMAIN blob.obj
          /\ \E i \in DOMAIN blob.obj.results : "place_id" \notin DOMAIN blob.obj.results[i]
     \/ blob.type = "list"
          /\ \E i \in DOMAIN blob.items : "place_id" \notin DOMAIN blob.items[i]

\* C11: a run whose load met a storage error or a malformed session has
\* started its scan (the loader did not crash) with an empty entity mapping
\* and empty metadata.
C11_MalformedLoad ==
  (last.kind = "started" /\ (last.load_raised \/ Malformed(gcs_json))) =>
     /\ pc = "scan"
     /\ unique_courses = EmptyDict
     /\ loaded = EmptyDict
     /\ course_count = 0
     /\ existing_metadata = EmptyObj
     /\ ~is_same_origin

\* C11 witness: the scan started on a wrapped session whose metadata holds
\* the search origin and whose second entity has no id.
C11_Witness ==
  /\ last.kind = "started"
  /\ ~last.load_raised
  /\ gcs_json.exists /\ gcs_json.type = "dict"
  /\ "results" \in DOMAIN gcs_json.obj
  /\ Len(gcs_json.obj.results) >= 2
  /\ "place_id" \in DOMAIN gcs_json.obj.results[1]
  /\ "place_id" \notin DOMAIN gcs_json.obj.results[2]
  /\ OriginsMatch(gcs_json.obj.metadata, search_origin)
  /\ pc = "scan"

\* C11 witness of the other case: a storage error on a sound session.
C11_StorageErrorReached ==
  /\ last.kind = "started"
  /\ last.load_raised
  /\ gcs_json.exists /\ ~Malformed(gcs_json)
  /\ pc = "scan"

\* ------------------------------------------------------------- environment
ConfigMissing == ~config.places \/ ~config.census \/ ~config.bucket

\* the last step was a call of the places search, the census geocoder or
\* the ACS API
ProviderCalled ==
  last.kind \in {"searched", "search_failed", "geo_failed", "demo_failed", "annotated"}

\* C12: with the places credential, the census credential or the bucket
\* name not configured, the run has stopped with an error and no discovery
\* search, tract geocoding or demographic lookup has been called.
C12_ConfigRequired ==
  ConfigMissing => (pc \in {"idle", "crashed"} /\ ~ProviderCalled)

\* C12: without the census credential the scan has searched, geocoded a new
\* place and called the demographic lookup.
C12_CalledWithoutCensusKey ==
  /\ ~config.census
  /\ config.places /\ config.bucket
  /\ last.kind \in {"demo_failed", "annotated"}

\* C12: without the bucket name the scan has searched, the failed load
\* taken for an empty bucket.
C12_SearchedWithoutBucket ==
  /\ ~config.bucket
  /\ config.places /\ config.census
  /\ last.kind = "searched"

\* C12, the credential that is checked: without the places credential
\* the run stops before any call.
C12_PlacesKeyRequired ==
  ~config.places => (pc \in {"idle", "crashed"} /\ ~ProviderCalled)

\* ------------------------------------------------------------------ lookups
\* C13: in a run, get_demographics has been called at most once for every
\* place id, and only for an id that the loader did not return and that is
\* in unique_courses (the call is made at its insertion: nothing for a
\* loaded or rediscovered id, no second call after a failed one).
C13_AtMostOneLookup ==
  \A id \in Ids :
    /\ demo_calls[id] <= 1
    /\ demo_calls[id] = 1 =>
         /\ id \notin Keys(loaded)
         /\ id \in Keys(unique_courses)
         /\ "census_geoid" \in DOMAIN Get(unique_courses, id)

\* C13 witness: a place whose demographic lookup failed at its insertion was
\* found again, at a later radius, and no second call was made.
C13_Witness ==
  /\ last.kind = "known"
  /\ ri >= 2
  /\ demo_calls[last.place.place_id] = 1
  /\ "pct_black" \notin DOMAIN Get(unique_courses, last.place.place_id)

\* C13 witness of the other case: a loaded place was found again and no
\* call was made for it.
C13_LoadedReached ==
  /\ last.kind = "known"
  /\ last.place.place_id \in Keys(loaded)
  /\ "pct_black" \notin DOMAIN Get(loaded, last.place.place_id)
  /\ demo_calls[last.place.place_id] = 0

\* --------------------------------------------------------------- haversine
IsAntipodalCall == hav_args # <<>> /\ hav_args[2] = Antipode(hav_args[1])

\* C14: for antipodal and coincident points haversine has returned a
\* non-negative finite distance; it has not raised.
C14_NoDomainFault ==
  hav_result # <<>> =>
     /\ ~hav_result[1].raised
     /\ hav_result[1].quarter_turns >= 0

\* C14: haversine has raised on a point at 82 degrees north and its
\* antipode.
C14_AntipodalRaised ==
  /\ IsAntipodalCall
  /\ hav_args[1][1] = 82
  /\ hav_result # <<>>
  /\ hav_result[1].raised

\* C14, for coincident points: haversine has returned zero.
C14_CoincidentZero ==
  (hav_result # <<>> /\ hav_args[1] = hav_args[2]) =>
     (~hav_result[1].raised /\ hav_result[1].quarter_turns = 0)

\* -------------------------------------------------------------------- order
\* the position in the CSV of the course of a derived row
CsvIndex(row) == CHOOSE i \in DOMAIN gcs_csv : gcs_csv[i].place_id = row.place_id

\* C15: the derived rows are in ascending order of distance, and two rows
\* at the same distance are in the order of their courses in the input.
C15_StableOrder ==
  Analysed =>
     \A i, j \in DOMAIN df_sorted :
        i < j =>
          /\ df_sorted[i].distance <= df_sorted[j].distance
          /\ df_sorted[i].distance = df_sorted[j].distance =>
               CsvIndex(df_sorted[i]) < CsvIndex(df_sorted[j])

\* C15: two courses at the same distance have their derived rows in the
\* reverse of their order in the input.
C15_TieReversed ==
  /\ Analysed
  /\ \E i, j \in DOMAIN df_sorted :
       /\ i < j
       /\ df_sorted[i].distance = df_sorted[j].distance
       /\ CsvIndex(df_sorted[i]) > CsvIndex(df_sorted[j])

\* C15, the order alone: the derived rows are the courses of the input, each
\* once, in ascending order of distance.
C15_Ascending ==
  Analysed =>
     /\ Len(df_sorted) = Len(gcs_csv)
     /\ {df_sorted[i].place_id : i \in DOMAIN df_sorted}
          = {gcs_csv[i].place_id : i \in DOMAIN gcs_csv}
     /\ \A i, j \in DOMAIN df_sorted :
          i < j => df_sorted[i].distance <= df_sorted[j].distance

\* ------------------------------------------------------------ the merge set
\* C16: from the load on, unique_courses holds every entity the loader
\* returned and course_count is its size; no step of the scan removes an
\* entity; and an export writes all of unique_courses, so the loaded
\* entities among them, with total_courses the number of entities written
\* and the count the run printed.
C16_NothingLost ==
  /\ [](pc # "idle" =>
          /\ \A id \in Keys(loaded) :
               id \in Keys(unique_courses)
                 /\ Get(unique_courses, id) = Get(loaded, id)
          /\ course_count = Len(unique_courses)
          /\ Cardinality(Keys(unique_courses)) = Len(unique_courses)
          /\ last.kind = "exported" =>
               /\ gcs_json.obj.results = Values(unique_courses)
               /\ \A id \in Keys(loaded) :
                    \E i \in DOMAIN gcs_json.obj.results :
                       gcs_json.obj.results[i] = Get(loaded, id)
               /\ gcs_json.obj.metadata.total_courses = Len(gcs_json.obj.results)
               /\ gcs_json.obj.metadata.total_courses = course_count
               /\ Len(gcs_csv) = course_count)
  /\ [][InRun => Keys(unique_courses) \subseteq Keys(unique_courses')]_vars

\* C16 witness: a run at another origin than the persisted one has exported
\* a loaded course together with one it found.
C16_Witness ==
  /\ last.kind = "exported"
  /\ HasOrigin(existing_metadata)
  /\ ~is_same_origin
  /\ Len(loaded) = 1
  /\ course_count = 2
  /\ Len(gcs_json.obj.results) = 2

====
